---- MODULE Spec2Model ----
(***************************************************************************)
(* Model of the refactored exercises of the repository:                    *)
(*   src/Solucion/tienda_online/tienda_online.py  (order notifications)    *)
(*   src/Solucion/gestor_documentos.py            (report generation)      *)
(* and of the monolith the first was refactored from:                     *)
(*   src/Originales/tienda_online.py                                       *)
(* The two files are independent scripts.  A behaviour of the model is a   *)
(* run of one of them: `script' says which object was constructed.         *)
(*                                                                         *)
(* Python values: a str is a TLA+ string; Optional[x] is None == <<>> or   *)
(* Some(x) == <<x>>; a dict is a function whose DOMAIN is its key set; an   *)
(* amount of money is an integer number of cents, printed by Fmt2f as the  *)
(* code's ":.2f" prints it.                                                *)
(***************************************************************************)
EXTENDS Integers, Sequences, FiniteSets, TLC

VARIABLES
    script,           \* which script runs: "tienda_online" or "gestor_documentos"
    now,              \* the second datetime.now() showed when it was last read
    \* ---- tienda_online.py
    notifiers,        \* NotificationFactory._notifiers : dict tag -> notifier
    message_builder,  \* MessageBuilder fields _order, _customer, _channel
    storage,          \* NotificationRepository._storage : list of Notification
    order,            \* the Order of the last send_notifications call
    channels,         \* its channel list
    attempts,         \* what each loop iteration of that call did, in order
    base,             \* Len(storage) when that call began
    raised,           \* the exception the last top-level call raised, or None
    registered,       \* per tag, the notifier last passed to the registry
    nattempts,        \* number of loop iterations run so far (bounded)
    sent,             \* a direct notifier.send(notification) call and its result
    workers,          \* per concurrent caller of the manager: its position and locals
    queried,          \* what the call just made returned, when it was a history query
    \* ---- gestor_documentos.py
    generators,       \* ReportFactory._generators : dict tag -> generator
    registered_generators, \* per tag, the generator last passed to the registry
    report_history,   \* ReportSystem.report_history : list of dict
    call,             \* the last generate_report call: request and what it did
    \* ---- Originales/tienda_online.py
    notifications_sent \* OrderNotificationSystem.notifications_sent : list of dict

tiendaVars == <<notifiers, message_builder, storage, order, channels,
                attempts, base, registered, sent, workers>>

gestorVars == <<generators, registered_generators, report_history, call>>

originalVars == <<notifications_sent>>

\* ------------------------------------------------------------------ bounds
\* Total number of channel attempts (sum of the channel-list lengths) of a run.
MaxAttempts == 3
\* Number of entries report_history reaches.
MaxReports == 2
\* Last second the clock reaches.
MaxClock == 1

\* Number of items of the sales and inventory payloads a generator is run on.
MaxItems == 3

\* ------------------------------------------------------------ Python values
None == <<>>
Some(x) == <<x>>
IsNone(o) == o = <<>>
Val(o) == o[1]

\* dict.get(key): None when the key is absent.
DictGet(d, k) == IF k \in DOMAIN d THEN Some(d[k]) ELSE None
\* d[key] = value
DictSet(d, k, v) == [x \in (DOMAIN d) \cup {k} |-> IF x = k THEN v ELSE d[x]]

\* f"{cents/100:.2f}" for a non-negative amount.
Fmt2f(c) ==
    ToString(c \div 100) \o "." \o
    (IF c % 100 < 10 THEN "0" ELSE "") \o ToString(c % 100)

\* str.startswith(prefix)
StartsWith(s, prefix) ==
    Len(s) >= Len(prefix) /\ SubSeq(s, 1, Len(prefix)) = prefix

\* str * n
RECURSIVE Repeat(_, _)
Repeat(s, n) == IF n = 0 THEN "" ELSE s \o Repeat(s, n - 1)

\* datetime.now().strftime(...) : the rendering of the clock reading.
Stamp(t) == "T" \o ToString(t)

\* What the next k calls of datetime.now() may return, in order, when the
\* clock last showed second t: the clock never goes back, and a second may
\* begin between any two readings.
RECURSIVE Clocks(_, _)
Clocks(t, k) ==
    IF k = 0 THEN {<<>>}
    ELSE UNION {{<<t1>> \o c : c \in Clocks(t1, k - 1)} : t1 \in t..MaxClock}

\* ==========================================================================
\* tienda_online.py
\* ==========================================================================

\* Customer.get_contact_info: contact_map.get(channel).
get_contact_info(customer, channel) ==
    LET contact_map == [email |-> customer.email,
                        sms   |-> customer.phone,
                        push  |-> customer.device_id]
    IN  IF channel \in DOMAIN contact_map THEN contact_map[channel] ELSE None

\* Customer.__init__ from order_data['customer'] (OrderProcessor.process_order).
Customer(c, preferences) ==
    [name |-> c.name, email |-> c.email, phone |-> c.phone,
     device_id |-> c.device_id,
     notification_preferences |->
        IF preferences = <<>> THEN <<"email">> ELSE preferences]

\* Order.__init__.
Order(order_id, customer, total) ==
    [order_id |-> order_id, customer |-> customer, total |-> total]

\* Notification.__init__ : status 'pending', no error attribute yet.  It reads
\* the clock twice, for the id and then for the timestamp: clock holds the
\* two readings.
Notification(notification_type, recipient, message, order_id, clock) ==
    [notification_id |-> "NOTIF-" \o Stamp(clock[1]),
     type      |-> notification_type,
     recipient |-> recipient,
     message   |-> message,
     order_id  |-> order_id,
     timestamp |-> clock[2],
     status    |-> "pending",
     error     |-> None]

mark_as_sent(n) == [n EXCEPT !.status = "sent"]

\* Fault variant of mark_as_failed: the error kept, the status left as it was.
mark_as_failed_error_only(n, err) == [n EXCEPT !.error = Some(err)]

mark_as_failed(n, err) == [n EXCEPT !.status = "failed", !.error = Some(err)]

\* Notification.to_dict : the keys the dictionary carries.
to_dict(n) ==
    [notification_id |-> n.notification_id,
     type      |-> n.type,
     recipient |-> n.recipient,
     message   |-> n.message,
     order_id  |-> n.order_id,
     timestamp |-> Stamp(n.timestamp),
     status    |-> n.status]

\* NotificationRepository.get_all.
get_all(st) == [i \in 1..Len(st) |-> to_dict(st[i])]

\* Fault variant of _validate_phone: the boundary off by one (>= 10).
_validate_phone_ge(phone) == phone # "" /\ Len(phone) >= 10

\* SMSNotifier._validate_phone : bool(phone and len(phone) > 10).
_validate_phone(phone) == phone # "" /\ Len(phone) > 10

\* SMSNotifier._format_sms : message[:160].
_format_sms(message) ==
    IF Len(message) <= 160 THEN message ELSE SubSeq(message, 1, 160)

\* Fault variant of _validate_device: the prefix without its dash.
_validate_device_nodash(device_id) ==
    device_id # "" /\ StartsWith(device_id, "DEVICE")

\* PushNotifier._validate_device : bool(device_id and startswith('DEVICE-')).
_validate_device(device_id) == device_id # "" /\ StartsWith(device_id, "DEVICE-")

\* The three send methods.  Result: the bool returned and the notification
\* as the method left it.
EmailNotifier_send(n) == [ok |-> TRUE, notification |-> mark_as_sent(n)]

SMSNotifier_send(n) ==
    IF ~_validate_phone(n.recipient)
    THEN [ok |-> FALSE,
          notification |-> mark_as_failed(n, "Número de teléfono inválido")]
    ELSE [ok |-> TRUE, notification |-> mark_as_sent(n)]

\* Fault variant of PushNotifier_send: False returned for an invalid device
\* without marking the notification.
PushNotifier_send_unmarked(n) ==
    IF ~_validate_device(n.recipient)
    THEN [ok |-> FALSE, notification |-> n]
    ELSE [ok |-> TRUE, notification |-> mark_as_sent(n)]

PushNotifier_send(n) ==
    IF ~_validate_device(n.recipient)
    THEN [ok |-> FALSE,
          notification |-> mark_as_failed(n, "Device ID inválido")]
    ELSE [ok |-> TRUE, notification |-> mark_as_sent(n)]

\* notifier.send(notification): dispatch on the class of the instance.
send(notifier, n) ==
    CASE notifier.cls = "EmailNotifier" -> EmailNotifier_send(n)
      [] notifier.cls = "SMSNotifier"   -> SMSNotifier_send(n)
      [] notifier.cls = "PushNotifier"  -> PushNotifier_send(n)

\* Notifier instances: the three NotificationFactory.__init__ creates, and the
\* further instances a caller may construct and register.
DefaultEmail == [cls |-> "EmailNotifier", id |-> 1]
DefaultSMS   == [cls |-> "SMSNotifier",   id |-> 2]
DefaultPush  == [cls |-> "PushNotifier",  id |-> 3]
NewNotifiers == {[cls |-> "EmailNotifier", id |-> 4]}

\* NotificationFactory.__init__.
NotificationFactory_init ==
    [email |-> DefaultEmail, sms |-> DefaultSMS, push |-> DefaultPush]

\* NotificationFactory.create_notifier: Some(notifier), or None for the
\* ValueError "Tipo de notificación no soportado".
create_notifier(reg, notification_type) == DictGet(reg, notification_type)

\* Fault variant of register_notifier: keeps a mapping the tag already has
\* (dict.setdefault in place of item assignment).
register_notifier_setdefault(reg, notification_type, notifier) ==
    IF notification_type \in DOMAIN reg
    THEN reg
    ELSE DictSet(reg, notification_type, notifier)

\* NotificationFactory.register_notifier.
register_notifier(reg, notification_type, notifier) ==
    DictSet(reg, notification_type, notifier)

\* NotificationFactory.get_available_channels.
get_available_channels(reg) == DOMAIN reg

\* MessageBuilder._apply_template : templates.get(channel, "Pedido confirmado").
_apply_template(mb) ==
    LET o == Val(mb.order)
        c == Val(mb.customer)
        templates ==
          [email |-> "Estimado " \o c.name \o ", su pedido #" \o o.order_id
                     \o " por $" \o Fmt2f(o.total)
                     \o " ha sido confirmado. Gracias por su compra.",
           sms   |-> "Pedido #" \o o.order_id \o " confirmado. Total: $"
                     \o Fmt2f(o.total) \o ". Gracias!",
           push  |-> "¡Pedido confirmado! #" \o o.order_id \o " - $"
                     \o Fmt2f(o.total)]
        t == DictGet(templates, Val(mb.channel))
    IN  IF IsNone(t) THEN "Pedido confirmado" ELSE Val(t)

\* MessageBuilder.build : None for the ValueError "Faltan datos ...".
MessageBuilder_build(mb) ==
    IF IsNone(mb.order) \/ IsNone(mb.customer)
       \/ IsNone(mb.channel) \/ mb.channel = Some("")
    THEN None
    ELSE Some(_apply_template(mb))

\* The builder after set_order(order).set_customer(order.customer).set_channel(channel).
MessageBuilder_set(o, channel) ==
    [order |-> Some(o), customer |-> Some(o.customer), channel |-> Some(channel)]

\* NotificationManager._create_notification: Some(notification), or None for
\* a ValueError (builder incomplete, or no contact information for the channel).
_create_notification(o, channel, clock) ==
    LET message   == MessageBuilder_build(MessageBuilder_set(o, channel))
        recipient == get_contact_info(o.customer, channel)
    IN  IF IsNone(message) \/ IsNone(recipient)
        THEN None
        ELSE Some(Notification(channel, Val(recipient), Val(message),
                               o.order_id, clock))

\* Fault variant of ChannelBody: repository.save only after a successful send.
ChannelBody_save_on_success(reg, o, channel, clock) ==
    LET created  == _create_notification(o, channel, clock)
        notifier == create_notifier(reg, channel)
    IN  IF IsNone(created) \/ IsNone(notifier)
        THEN [channel |-> channel, outcome |-> "rejected", saved |-> FALSE,
              by |-> None, notification |-> None]
        ELSE LET r == send(Val(notifier), Val(created))
             IN  [channel |-> channel,
                  outcome |-> IF r.ok THEN "sent" ELSE "failed",
                  saved |-> r.ok,
                  by |-> notifier,
                  notification |-> Some(r.notification)]

\* One iteration of the for loop of NotificationManager.send_notifications
\* (the try body and its except).  outcome: "rejected" when the try body
\* raised before repository.save, else "sent"/"failed"; saved: whether
\* repository.save ran; by: the notifier whose send ran.  clock: the two
\* clock readings the iteration makes when it comes to build a Notification.
ChannelBody(reg, o, channel, clock) ==
    LET created  == _create_notification(o, channel, clock)
        notifier == create_notifier(reg, channel)
    IN  IF IsNone(created)
        THEN [channel |-> channel, outcome |-> "rejected", saved |-> FALSE,
              by |-> None, notification |-> None]
        ELSE IF IsNone(notifier)
        THEN [channel |-> channel, outcome |-> "rejected", saved |-> FALSE,
              by |-> None, notification |-> None]
        ELSE LET r == send(Val(notifier), Val(created))
             IN  [channel |-> channel,
                  outcome |-> IF r.ok THEN "sent" ELSE "failed",
                  saved |-> TRUE,
                  by |-> notifier,
                  notification |-> Some(r.notification)]

\* Fault variant of save: the notification put at the front of the list.
save_front(st, n) == <<n>> \o st

\* NotificationRepository.save.
save(st, n) == Append(st, n)

\* OrderProcessor._validate_order.
_validate_order(order_data) ==
    \A f \in {"order_id", "customer", "total"} : f \in DOMAIN order_data

\* ---------------------------------------------------------------- inputs
Channels == {"email", "sms", "push", "whatsapp"}

\* The channel lists of length n.
RECURSIVE ListsOfLen(_)
ListsOfLen(n) ==
    IF n = 0 THEN {<<>>}
    ELSE {Append(l, c) : l \in ListsOfLen(n - 1), c \in Channels}

ChannelLists == [n \in 0..MaxAttempts |-> ListsOfLen(n)]

\* An order id long enough for every template to pass 160 characters.
LongOrderId == "ORD-" \o Repeat("0", 120)

\* order_data dictionaries, shaped as the script's sample orders, with the
\* contact fields at the validators' boundaries: a phone of 10 and of 11
\* characters, a device id with and without the prefix, an absent email;
\* the second order has the long id.  ORD-003 has no 'total' key.
OrderData ==
    { [order_id |-> "ORD-001", total |-> 15050,
       customer |-> [name |-> "Ana García",
                     email |-> Some("ana.garcia@email.com"),
                     phone |-> Some("0123456789"),
                     device_id |-> Some("DEVICE-ABC-123")]],
      [order_id |-> LongOrderId, total |-> 7500,
       customer |-> [name |-> "Carlos Ruiz",
                     email |-> None,
                     phone |-> Some("01234567890"),
                     device_id |-> Some("XYZ-DEVICE-789")]],
      [order_id |-> "ORD-003",
       customer |-> [name |-> "Eva Sanz",
                     email |-> Some("eva.sanz@email.com"),
                     phone |-> Some("+34-600-123-456"),
                     device_id |-> Some("DEVICE-EVA-456")]] }

\* Recipients handed to a notifier directly: every prefix of a phone number
\* and of a device id (all lengths around the validators' boundaries), and
\* strings that hold the device prefix elsewhere or in another case.
Prefixes(str) == {SubSeq(str, 1, k) : k \in 0..Len(str)}

Recipients ==
    Prefixes("+34-600-123-456") \cup Prefixes("DEVICE-ABC-123")
    \cup {"XDEVICE-ABC", "device-abc-123", "ana.garcia@email.com"}

\* No direct call made.
NoSend ==
    [notifier |-> DefaultEmail,
     notification |-> Notification("email", "", "", "", <<0, 0>>),
     ok |-> Some(TRUE), after |-> None]

\* Tags a caller registers a notifier for: one that has a default, one new.
RegisterTags == {"sms", "whatsapp"}

NoOrder == [order_id |-> "", customer |-> None, total |-> 0]

\* The callers that use one NotificationManager at the same time.
Workers == {1, 2}

\* No caller at work.
NoWorkers ==
    [w \in Workers |-> [pc |-> "idle", order |-> NoOrder, channel |-> "",
                        message |-> None, clock |-> <<>>,
                        notification |-> None]]

\* ------------------------------------------------------------------ actions
\* Fault variant of SendLoop: the try around the whole loop, so that the first
\* channel that raises or fails ends it.
RECURSIVE SendLoop_break(_, _, _, _, _)
SendLoop_break(st, reg, o, chans, clock) ==
    IF chans = <<>> THEN st
    ELSE LET channel == Head(chans)
             r == ChannelBody(reg, o, channel, clock)
             st1 == [storage |-> IF r.saved
                                 THEN save(st.storage, Val(r.notification))
                                 ELSE st.storage,
                     message_builder |-> MessageBuilder_set(o, channel),
                     attempts |-> Append(st.attempts, r),
                     now |-> IF IsNone(_create_notification(o, channel, clock))
                             THEN st.now ELSE clock[2]]
         IN  IF r.outcome # "sent"
             THEN st1
             ELSE SendLoop_break(st1, reg, o, Tail(chans),
                                 SubSeq(clock, 3, Len(clock)))

\* The for loop of NotificationManager.send_notifications over chans, from
\* the state st = [storage, message_builder, attempts, now]: each iteration
\* sets the shared builder, runs the try body and saves what send handled.
\* clock holds two readings for each channel of chans, made when the
\* iteration builds a Notification; now is the last reading made.
RECURSIVE SendLoop(_, _, _, _, _)
SendLoop(st, reg, o, chans, clock) ==
    IF chans = <<>> THEN st
    ELSE LET channel == Head(chans)
             r == ChannelBody(reg, o, channel, clock)
         IN  SendLoop([storage |-> IF r.saved
                                   THEN save(st.storage, Val(r.notification))
                                   ELSE st.storage,
                       message_builder |-> MessageBuilder_set(o, channel),
                       attempts |-> Append(st.attempts, r),
                       now |-> IF IsNone(_create_notification(o, channel, clock))
                               THEN st.now ELSE clock[2]],
                      reg, o, Tail(chans), SubSeq(clock, 3, Len(clock)))

\* OrderNotificationSystem.process_order(order_data, notification_types) ->
\* OrderProcessor.process_order -> NotificationManager.send_notifications,
\* until it returns or raises.  clock: the readings of the clock the call
\* makes, one by Order.__init__ (line 60) and two for each channel.
process_order_call(order_data, notification_types, clock) ==
    /\ script = "tienda_online"
    /\ IF ~_validate_order(order_data)
            THEN /\ raised' = Some("ValueError: Datos de pedido inválidos")
                 /\ UNCHANGED <<order, channels, attempts, base, nattempts,
                                storage, message_builder, now>>
            ELSE \E o \in {Order(order_data.order_id,
                                 Customer(order_data.customer, notification_types),
                                 order_data.total)} :
                 \E r \in {SendLoop([storage |-> storage,
                                     message_builder |-> message_builder,
                                     attempts |-> <<>>,
                                     now |-> clock[1]],
                                    notifiers, o, notification_types,
                                    Tail(clock))} :
                     /\ raised' = None
                     /\ now' = r.now
                     /\ nattempts' = nattempts + Len(notification_types)
                     /\ order' = o
                     /\ channels' = notification_types
                     /\ base' = Len(storage)
                     /\ storage' = r.storage
                     /\ message_builder' = r.message_builder
                     /\ attempts' = r.attempts
    /\ queried' = None
    /\ UNCHANGED <<script, notifiers, registered, sent, workers>>
    /\ UNCHANGED gestorVars

\* A process_order call of the script, on any order data and channel list.
process_order ==
    /\ \E order_data \in OrderData, n \in 0..(MaxAttempts - nattempts) :
       \E notification_types \in ChannelLists[n], clock \in Clocks(now, 1 + 2 * n) :
         process_order_call(order_data, notification_types, clock)
    /\ UNCHANGED originalVars

\* factory.register_notifier(tag, notifier), called between orders.  (A call
\* that registers again what the tag already maps to changes nothing.)
RegisterNotifier ==
    /\ script = "tienda_online"
    /\ \E tag \in RegisterTags, n \in NewNotifiers :
         /\ DictGet(notifiers, tag) # Some(n)
         /\ notifiers' = register_notifier(notifiers, tag, n)
         /\ registered' = [t \in (DOMAIN registered) \cup {tag} |->
                              IF t = tag THEN n ELSE registered[t]]
    /\ UNCHANGED <<script, now, message_builder, storage, order, channels,
                   attempts, base, raised, nattempts, sent, workers>>
    /\ queried' = None
    /\ UNCHANGED gestorVars
    /\ UNCHANGED originalVars

\* notifier.send(notification) called directly on a notification of its own,
\* as a unit test of the three strategies does.
NotifierSend ==
    /\ script = "tienda_online"
    /\ IsNone(sent.ok)
    /\ \E r \in {send(sent.notifier, sent.notification)} :
         sent' = [sent EXCEPT !.ok = Some(r.ok), !.after = Some(r.notification)]
    /\ UNCHANGED <<script, now, raised, nattempts, notifiers, message_builder,
                   storage, order, channels, attempts, base, registered,
                   workers, queried>>
    /\ UNCHANGED gestorVars
    /\ UNCHANGED originalVars

\* A second passes between two calls.  (Inside a call the clock advances
\* between its readings: see Clocks.)
Tick ==
    /\ now < MaxClock
    /\ now' = now + 1
    /\ UNCHANGED <<script, raised, nattempts, queried>>
    /\ UNCHANGED tiendaVars
    /\ UNCHANGED originalVars
    /\ UNCHANGED gestorVars

\* ---- Two callers on one NotificationManager, interleaved.  Each runs the
\* try body of send_notifications for its own order and channel, one builder
\* call at a time: the manager's message_builder and repository are the
\* objects both use.

\* message_builder.set_order(order)
Worker_set_order ==
    /\ script = "tienda_online"
    /\ \E w \in Workers :
         /\ workers[w].pc = "set_order"
         /\ message_builder' =
              [message_builder EXCEPT !.order = Some(workers[w].order)]
         /\ workers' = [workers EXCEPT ![w].pc = "set_customer"]
    /\ UNCHANGED <<script, now, raised, nattempts, queried, notifiers, storage,
                   order, channels, attempts, base, registered, sent>>
    /\ UNCHANGED gestorVars
    /\ UNCHANGED originalVars

\* .set_customer(order.customer)
Worker_set_customer ==
    /\ script = "tienda_online"
    /\ \E w \in Workers :
         /\ workers[w].pc = "set_customer"
         /\ message_builder' =
              [message_builder EXCEPT !.customer = Some(workers[w].order.customer)]
         /\ workers' = [workers EXCEPT ![w].pc = "set_channel"]
    /\ UNCHANGED <<script, now, raised, nattempts, queried, notifiers, storage,
                   order, channels, attempts, base, registered, sent>>
    /\ UNCHANGED gestorVars
    /\ UNCHANGED originalVars

\* .set_channel(channel)
Worker_set_channel ==
    /\ script = "tienda_online"
    /\ \E w \in Workers :
         /\ workers[w].pc = "set_channel"
         /\ message_builder' =
              [message_builder EXCEPT !.channel = Some(workers[w].channel)]
         /\ workers' = [workers EXCEPT ![w].pc = "build"]
    /\ UNCHANGED <<script, now, raised, nattempts, queried, notifiers, storage,
                   order, channels, attempts, base, registered, sent>>
    /\ UNCHANGED gestorVars
    /\ UNCHANGED originalVars

\* .build(): the message, read off the builder as it is now.
Worker_build ==
    /\ script = "tienda_online"
    /\ \E w \in Workers :
         /\ workers[w].pc = "build"
         /\ workers' = [workers EXCEPT
                          ![w].message = MessageBuilder_build(message_builder),
                          ![w].pc = IF IsNone(MessageBuilder_build(message_builder))
                                    THEN "done" ELSE "deliver"]
    /\ UNCHANGED <<script, now, raised, nattempts, queried, notifiers,
                   message_builder, storage, order, channels, attempts, base,
                   registered, sent>>
    /\ UNCHANGED gestorVars
    /\ UNCHANGED originalVars

\* ---- The rest of the try body, one step for each point at which the other
\* caller may run in between: the two readings of the clock in
\* Notification.__init__, notifier.send (which prints) and repository.save.

\* get_contact_info, the ValueError for no contact, and the first clock
\* reading of Notification.__init__ (the id).
Worker_read_id ==
    /\ script = "tienda_online"
    /\ \E w \in Workers :
         /\ workers[w].pc = "deliver"
         /\ IF IsNone(get_contact_info(workers[w].order.customer,
                                       workers[w].channel))
            THEN /\ workers' = [workers EXCEPT ![w].pc = "done"]
                 /\ UNCHANGED now
            ELSE \E clock \in Clocks(now, 1) :
                   /\ workers' = [workers EXCEPT ![w].clock = clock,
                                                 ![w].pc = "timestamp"]
                   /\ now' = clock[1]
    /\ UNCHANGED <<script, raised, nattempts, queried, notifiers,
                   message_builder, storage, order, channels, attempts, base,
                   registered, sent>>
    /\ UNCHANGED gestorVars
    /\ UNCHANGED originalVars

\* The second clock reading of Notification.__init__ (the timestamp): the
\* Notification is built.
Worker_read_timestamp ==
    /\ script = "tienda_online"
    /\ \E w \in Workers :
         /\ workers[w].pc = "timestamp"
         /\ \E clock \in Clocks(now, 1) :
              /\ workers' =
                   [workers EXCEPT
                      ![w].notification =
                         Some(Notification(
                                workers[w].channel,
                                Val(get_contact_info(workers[w].order.customer,
                                                     workers[w].channel)),
                                Val(workers[w].message),
                                workers[w].order.order_id,
                                workers[w].clock \o clock)),
                      ![w].pc = "send"]
              /\ now' = clock[1]
    /\ UNCHANGED <<script, raised, nattempts, queried, notifiers,
                   message_builder, storage, order, channels, attempts, base,
                   registered, sent>>
    /\ UNCHANGED gestorVars
    /\ UNCHANGED originalVars

\* factory.create_notifier(channel), whose ValueError ends the attempt, and
\* notifier.send(notification), which marks the caller's notification.
Worker_send ==
    /\ script = "tienda_online"
    /\ \E w \in Workers :
         /\ workers[w].pc = "send"
         /\ LET notifier == create_notifier(notifiers, workers[w].channel)
            IN  workers' =
                  IF IsNone(notifier)
                  THEN [workers EXCEPT ![w].pc = "done"]
                  ELSE [workers EXCEPT
                          ![w].notification =
                             Some(send(Val(notifier),
                                       Val(workers[w].notification)).notification),
                          ![w].pc = "save"]
    /\ UNCHANGED <<script, now, raised, nattempts, queried, notifiers,
                   message_builder, storage, order, channels, attempts, base,
                   registered, sent>>
    /\ UNCHANGED gestorVars
    /\ UNCHANGED originalVars

\* repository.save(notification).
Worker_save ==
    /\ script = "tienda_online"
    /\ \E w \in Workers :
         /\ workers[w].pc = "save"
         /\ storage' = save(storage, Val(workers[w].notification))
         /\ workers' = [workers EXCEPT ![w].pc = "done"]
    /\ UNCHANGED <<script, now, raised, nattempts, queried, notifiers,
                   message_builder, order, channels, attempts, base,
                   registered, sent>>
    /\ UNCHANGED gestorVars
    /\ UNCHANGED originalVars

\* OrderNotificationSystem.get_notification_history: repository.get_all().
get_notification_history ==
    /\ script = "tienda_online"
    /\ IsNone(queried)
    /\ queried' = Some(get_all(storage))
    /\ UNCHANGED <<script, now, raised, nattempts>>
    /\ UNCHANGED tiendaVars
    /\ UNCHANGED originalVars
    /\ UNCHANGED gestorVars

\* ==========================================================================
\* Originales/tienda_online.py : the monolith tienda_online.py was refactored
\* from.  The model hands it the calls the refactored system is handed.
\* ==========================================================================

\* str(total) of a non-negative float, as an f-string prints it: the
\* shortest decimal, with at least one digit after the point.
StrFloat(c) ==
    ToString(c \div 100) \o "." \o
    (IF c % 100 = 0 THEN "0"
     ELSE IF c % 10 = 0 THEN ToString((c % 100) \div 10)
     ELSE (IF c % 100 < 10 THEN "0" ELSE "") \o ToString(c % 100))

\* datetime.now().isoformat() : the rendering of the clock reading.
IsoStamp(t) == "I" \o ToString(t)

\* The dict one branch of the loop appends; 'to' is the customer's field as
\* the order data holds it.
OriginalEntry(order_data, notif_type, t) ==
    LET customer == order_data.customer
        order_id == order_data.order_id
        total    == StrFloat(order_data.total)
    IN  CASE notif_type = "email" ->
               [type |-> "email", to |-> customer.email,
                message |-> "Estimado " \o customer.name \o ", su pedido #"
                            \o order_id \o " por $" \o total
                            \o " ha sido confirmado.",
                timestamp |-> IsoStamp(t)]
          [] notif_type = "sms" ->
               [type |-> "sms", to |-> customer.phone,
                message |-> "Pedido #" \o order_id \o " confirmado. Total: $"
                            \o total \o ". Gracias por su compra!",
                timestamp |-> IsoStamp(t)]
          [] notif_type = "push" ->
               [type |-> "push", to |-> customer.device_id,
                message |-> "¡Pedido confirmado! #" \o order_id \o " - $"
                            \o total,
                timestamp |-> IsoStamp(t)]

\* Fault variant of OriginalLoop: a channel already notified for the order
\* is skipped.
RECURSIVE OriginalLoop_once(_, _, _, _)
OriginalLoop_once(sent_list, order_data, notification_types, clock) ==
    IF notification_types = <<>> THEN sent_list
    ELSE LET notif_type == Head(notification_types)
         IN  OriginalLoop_once(
                 IF /\ notif_type \in {"email", "sms", "push"}
                    /\ \A i \in 1..Len(sent_list) :
                         sent_list[i].type # notif_type
                 THEN Append(sent_list,
                             OriginalEntry(order_data, notif_type, clock[1]))
                 ELSE sent_list,
                 order_data, Tail(notification_types), Tail(clock))

\* The for loop of process_order: an entry appended for 'email', 'sms' and
\* 'push', nothing done for any other type.  clock holds one reading for
\* each type of the list, made when its entry is built.
RECURSIVE OriginalLoop(_, _, _, _)
OriginalLoop(sent_list, order_data, notification_types, clock) ==
    IF notification_types = <<>> THEN sent_list
    ELSE LET notif_type == Head(notification_types)
         IN  OriginalLoop(
                 IF notif_type \in {"email", "sms", "push"}
                 THEN Append(sent_list,
                             OriginalEntry(order_data, notif_type, clock[1]))
                 ELSE sent_list,
                 order_data, Tail(notification_types), Tail(clock))

\* OrderNotificationSystem.process_order of the monolith: notifications_sent
\* after the call.  A key the first three lines read and the order data lacks
\* is a KeyError raised before anything is appended.
Original_process_order(sent_list, order_data, notification_types, clock) ==
    IF \E f \in {"order_id", "customer", "total"} : f \notin DOMAIN order_data
    THEN sent_list
    ELSE OriginalLoop(sent_list, order_data, notification_types, clock)

\* Order data whose customer has its four fields as strings: those of
\* OrderData, and a customer with an empty email, a phone the SMS notifier
\* accepts and a device id the push notifier rejects.
OrderDataStrings ==
    {d \in OrderData : \A f \in {"email", "phone", "device_id"} :
                          ~IsNone(d.customer[f])}
    \cup { [order_id |-> "ORD-004", total |-> 7500,
            customer |-> [name |-> "Luis Paz",
                          email |-> Some(""),
                          phone |-> Some("01234567890"),
                          device_id |-> Some("XYZ-DEVICE-789")]] }

\* One process_order call made on both systems with the same arguments, on
\* the monolith and then on the refactored one, each reading the clock as
\* it goes.
process_order_both ==
    \E order_data \in OrderDataStrings, n \in 0..(MaxAttempts - nattempts) :
    \E notification_types \in ChannelLists[n], original_clock \in Clocks(now, n) :
    \E clock \in Clocks(IF n = 0 THEN now ELSE original_clock[n], 1 + 2 * n) :
        /\ notifications_sent'
             = Original_process_order(notifications_sent, order_data,
                                      notification_types, original_clock)
        /\ process_order_call(order_data, notification_types, clock)

\* ==========================================================================
\* gestor_documentos.py
\* ==========================================================================

\* "=" * 60 and "-" * 60.
Rule == Repeat("=", 60)
Dash == Repeat("-", 60)

\* f"{x:.2f}" for an amount of either sign.
Fmt2fSigned(c) == IF c < 0 THEN "-" \o Fmt2f(0 - c) ELSE Fmt2f(c)

\* {**a, **b}
DictMerge(a, b) ==
    [k \in (DOMAIN a) \cup (DOMAIN b) |-> IF k \in DOMAIN b THEN b[k] ELSE a[k]]

\* Report.__init__ ; t is its reading of the clock.
Report(content, report_type, format_type, metadata, t) ==
    [content |-> content, type |-> report_type, format |-> format_type,
     timestamp |-> t, metadata |-> metadata]

\* Report.get_metadata.
get_metadata(report) ==
    DictMerge([type |-> report.type, format |-> report.format,
               timestamp |-> Stamp(report.timestamp)],
              report.metadata)

\* The header every generator writes.
Header(title, t) ==
    Rule \o "\n" \o "           " \o title \o "\n"
    \o Rule \o "\n" \o "Fecha de generación: " \o Stamp(t) \o "\n\n"

\* Fault variant of _calculate_totals: the last item left out of the sum.
RECURSIVE Sales_calculate_totals_but_last(_)
Sales_calculate_totals_but_last(sales) ==
    IF Len(sales) <= 1 THEN 0
    ELSE Head(sales).amount + Sales_calculate_totals_but_last(Tail(sales))

\* SalesReportGenerator._calculate_totals.
RECURSIVE Sales_calculate_totals(_)
Sales_calculate_totals(sales) ==
    IF sales = <<>> THEN 0
    ELSE Head(sales).amount + Sales_calculate_totals(Tail(sales))

\* SalesReportGenerator._format_sales_detail: the detail lines (the bullet
\* character of the source is written "*" here).
RECURSIVE SalesLines(_)
SalesLines(sales) ==
    IF sales = <<>> THEN ""
    ELSE "  * Producto: " \o Head(sales).product \o " - $"
         \o Fmt2fSigned(Head(sales).amount) \o "\n" \o SalesLines(Tail(sales))

_format_sales_detail(sales) ==
    "Detalle de ventas:\n" \o Dash \o "\n" \o SalesLines(sales)

\* A generator's result: the Report, or the KeyError a missing field raises.
Returned(report) == [err |-> None, report |-> Some(report)]
Raised(e) == [err |-> Some(e), report |-> None]

\* SalesReportGenerator.generate_report.
SalesReportGenerator_generate_report(data, clock) ==
    IF "sales" \notin DOMAIN data THEN Raised("KeyError: 'sales'")
    ELSE IF "period" \notin DOMAIN data THEN Raised("KeyError: 'period'")
    ELSE Returned(Report(
           Header("REPORTE DE VENTAS", clock[1])
           \o "Total de ventas: $"
           \o Fmt2fSigned(Sales_calculate_totals(data.sales)) \o "\n"
           \o "Número de transacciones: " \o ToString(Len(data.sales)) \o "\n"
           \o "Periodo: " \o data.period \o "\n\n"
           \o _format_sales_detail(data.sales),
           "sales", "raw", [period |-> data.period], clock[2]))

\* InventoryReportGenerator._calculate_totals.
RECURSIVE Inventory_calculate_totals(_)
Inventory_calculate_totals(items) ==
    IF items = <<>> THEN 0
    ELSE Head(items).quantity + Inventory_calculate_totals(Tail(items))

\* Used by the fault variant below only: str.lower(), for the capital
\* letters the payloads use.
LowerChar(ch) ==
    CASE ch = "A" -> "a"
      [] ch = "P" -> "p"
      [] ch = "C" -> "c"
      [] OTHER    -> ch

RECURSIVE Lower(_)
Lower(str) ==
    IF str = "" THEN ""
    ELSE LowerChar(SubSeq(str, 1, 1)) \o Lower(SubSeq(str, 2, Len(str)))

\* Fault variant of _group_by_category: the categories keyed by cat.lower().
_group_by_category_lower(items) ==
    {Lower(items[i].category) : i \in 1..Len(items)}

\* InventoryReportGenerator._group_by_category: the keys of the dict built.
_group_by_category(items) == {items[i].category : i \in 1..Len(items)}

RECURSIVE InventoryLines(_)
InventoryLines(items) ==
    IF items = <<>> THEN ""
    ELSE "  * " \o Head(items).name \o " (" \o Head(items).category \o "): "
         \o ToString(Head(items).quantity) \o " unidades\n"
         \o InventoryLines(Tail(items))

\* InventoryReportGenerator.generate_report.
InventoryReportGenerator_generate_report(data, clock) ==
    IF "items" \notin DOMAIN data THEN Raised("KeyError: 'items'")
    ELSE LET total_items == Inventory_calculate_totals(data.items)
             categories  == _group_by_category(data.items)
         IN  Returned(Report(
               Header("REPORTE DE INVENTARIO", clock[1])
               \o "Total de productos: " \o ToString(total_items) \o "\n"
               \o "Categorías: " \o ToString(Cardinality(categories)) \o "\n\n"
               \o "Inventario actual:\n" \o Dash \o "\n"
               \o InventoryLines(data.items),
               "inventory", "raw", [total_items |-> total_items], clock[2]))

\* FinancialReportGenerator._calculate_balance.
_calculate_balance(income, expenses) == income - expenses

\* Fault variant of FinancialReportGenerator.generate_report: a field the
\* payload lacks is read as 0 (dict.get with a default).
FinancialReportGenerator_generate_report_lenient(data, clock) ==
    LET income   == IF "income" \in DOMAIN data THEN data.income ELSE 0
        expenses == IF "expenses" \in DOMAIN data THEN data.expenses ELSE 0
        balance  == _calculate_balance(income, expenses)
    IN  Returned(Report(
          Header("REPORTE FINANCIERO", clock[1])
          \o "Ingresos: $" \o Fmt2fSigned(income) \o "\n"
          \o "Gastos: $" \o Fmt2fSigned(expenses) \o "\n"
          \o "Balance: $" \o Fmt2fSigned(balance) \o "\n",
          "financial", "raw", [balance |-> balance], clock[2]))

\* FinancialReportGenerator.generate_report.
FinancialReportGenerator_generate_report(data, clock) ==
    IF "income" \notin DOMAIN data THEN Raised("KeyError: 'income'")
    ELSE IF "expenses" \notin DOMAIN data THEN Raised("KeyError: 'expenses'")
    ELSE LET balance == _calculate_balance(data.income, data.expenses)
         IN  Returned(Report(
               Header("REPORTE FINANCIERO", clock[1])
               \o "Ingresos: $" \o Fmt2fSigned(data.income) \o "\n"
               \o "Gastos: $" \o Fmt2fSigned(data.expenses) \o "\n"
               \o "Balance: $" \o Fmt2fSigned(balance) \o "\n",
               "financial", "raw", [balance |-> balance], clock[2]))

\* generator.generate_report(data): dispatch on the class of the instance.
\* Each generator reads the clock on its first line, for the date of the
\* content, and Report.__init__ reads it again: clock holds the two readings.
generate(generator, data, clock) ==
    CASE generator.cls = "SalesReportGenerator" ->
           SalesReportGenerator_generate_report(data, clock)
      [] generator.cls = "InventoryReportGenerator" ->
           InventoryReportGenerator_generate_report(data, clock)
      [] generator.cls = "FinancialReportGenerator" ->
           FinancialReportGenerator_generate_report(data, clock)

\* PDFFormatter.format, ExcelFormatter.format, HTMLFormatter.format.
PDFFormatter_format(content) == "[PDF FORMAT]\n" \o content \o "\n[END PDF]"

ExcelFormatter_format(content) == "[EXCEL FORMAT]\n" \o content \o "\n[END EXCEL]"

HTMLFormatter_format(content) ==
    "<html><body><pre>" \o content \o "</pre></body></html>"

\* formatter.format(content): dispatch on the class of the instance.
format(formatter, content) ==
    CASE formatter.cls = "PDFFormatter"   -> PDFFormatter_format(content)
      [] formatter.cls = "ExcelFormatter" -> ExcelFormatter_format(content)
      [] formatter.cls = "HTMLFormatter"  -> HTMLFormatter_format(content)

\* delivery.deliver(report, metadata): what the strategy was handed, the place
\* it names (recipient, file name or URL) and the bool it returns.  t: the
\* reading of the clock DownloadDelivery makes for the file name.
deliver(delivery, report, metadata, t) ==
    [by |-> delivery.cls, report |-> report, metadata |-> metadata, ok |-> TRUE,
     target |->
       CASE delivery.cls = "EmailDelivery" -> "admin@company.com"
         [] delivery.cls = "DownloadDelivery" ->
              "report_" \o metadata.type \o "_" \o Stamp(t) \o "."
              \o metadata.format
         [] delivery.cls = "CloudDelivery" ->
              "https://cloud.company.com/reports/" \o metadata.type]

\* ReportFactory.__init__ and the instances a caller may register.
ReportFactory_init ==
    [sales     |-> [cls |-> "SalesReportGenerator", id |-> 1],
     inventory |-> [cls |-> "InventoryReportGenerator", id |-> 2],
     financial |-> [cls |-> "FinancialReportGenerator", id |-> 3]]

NewGenerators == {[cls |-> "SalesReportGenerator", id |-> 4]}

\* Fault variant of create_generator: an unknown type falls back to the
\* sales generator (dict.get with a default).
create_generator_default(reg, report_type) ==
    IF report_type \in DOMAIN reg
    THEN Some(reg[report_type])
    ELSE Some([cls |-> "SalesReportGenerator", id |-> 1])

\* ReportFactory.create_generator: None for the ValueError.
create_generator(reg, report_type) == DictGet(reg, report_type)

\* ReportFactory.register_generator.
register_generator(reg, report_type, generator) ==
    DictSet(reg, report_type, generator)

\* ReportSystem.__init__: the two strategy dictionaries.
_format_strategies ==
    [pdf |-> [cls |-> "PDFFormatter"], excel |-> [cls |-> "ExcelFormatter"],
     html |-> [cls |-> "HTMLFormatter"]]

_delivery_strategies ==
    [email |-> [cls |-> "EmailDelivery"], download |-> [cls |-> "DownloadDelivery"],
     cloud |-> [cls |-> "CloudDelivery"]]

\* The builder after the four setters chained by generate_report.  Every
\* call assigns all four fields before build reads them, so the builder is
\* a value of the call and no variable of the model.
ReportBuilder_set(generator, formatter, delivery, data) ==
    [generator |-> Some(generator), formatter |-> Some(formatter),
     delivery |-> Some(delivery), data |-> Some(data)]

\* Fault variant of ReportBuilder.build: the delivery made before the
\* formatting, with the generator's content.
ReportBuilder_build_deliver_first(b, clock) ==
    IF IsNone(b.generator) \/ IsNone(b.formatter) \/ IsNone(b.delivery)
       \/ IsNone(b.data) \/ b.data = Some(<<>>)
    THEN [err |-> Some("ValueError: Faltan componentes para construir el reporte"),
          report |-> None, generated |-> None, delivered |-> None,
          steps |-> <<>>, readings |-> 0]
    ELSE LET g == generate(Val(b.generator), Val(b.data), clock)
         IN  IF ~IsNone(g.err)
             THEN [err |-> g.err, report |-> None, generated |-> None,
                   delivered |-> None, steps |-> <<"generate">>,
                   readings |-> 1]
             ELSE LET report == Val(g.report)
                      d == deliver(Val(b.delivery), report.content,
                                   get_metadata(report), clock[3])
                      formatted_content == format(Val(b.formatter), report.content)
                  IN  [err |-> None,
                       report |-> Some([report EXCEPT !.content = formatted_content]),
                       generated |-> Some(report),
                       delivered |-> Some(d),
                       steps |-> <<"generate", "deliver", "format">>,
                       readings |-> IF d.by = "DownloadDelivery" THEN 3 ELSE 2]

\* ReportBuilder.build.  err: the exception raised, if any; generated: the
\* Report object as the generator returned it; report: that same object as
\* build returns it, after the assignment report.content = formatted_content;
\* delivered: what the delivery strategy was handed; steps: the steps run, in
\* order; readings: how many of the three clock readings of clock were made
\* (the generator's, Report.__init__'s, DownloadDelivery's).
ReportBuilder_build(b, clock) ==
    IF IsNone(b.generator) \/ IsNone(b.formatter) \/ IsNone(b.delivery)
       \/ IsNone(b.data) \/ b.data = Some(<<>>)
    THEN [err |-> Some("ValueError: Faltan componentes para construir el reporte"),
          report |-> None, generated |-> None, delivered |-> None,
          steps |-> <<>>, readings |-> 0]
    ELSE LET g == generate(Val(b.generator), Val(b.data), clock)
         IN  IF ~IsNone(g.err)
             THEN [err |-> g.err, report |-> None, generated |-> None,
                   delivered |-> None, steps |-> <<"generate">>,
                   readings |-> 1]
             ELSE LET report == Val(g.report)
                      formatted_content == format(Val(b.formatter), report.content)
                      d == deliver(Val(b.delivery), formatted_content,
                                   get_metadata(report), clock[3])
                  IN  [err |-> None,
                       report |-> Some([report EXCEPT !.content = formatted_content]),
                       generated |-> Some(report),
                       delivered |-> Some(d),
                       steps |-> <<"generate", "format", "deliver">>,
                       readings |-> IF d.by = "DownloadDelivery" THEN 3 ELSE 2]

\* Fault variant of _log_report: the history keeps the newest entry only.
_log_report_latest(history, report) ==
    << [type |-> report.type, format |-> report.format,
        timestamp |-> Stamp(report.timestamp),
        metadata |-> report.metadata] >>

\* ReportSystem._log_report: the entry appended.
_log_report(history, report) ==
    Append(history, [type |-> report.type, format |-> report.format,
                     timestamp |-> Stamp(report.timestamp),
                     metadata |-> report.metadata])

\* ---------------------------------------------------------------- inputs
ReportTypes == {"sales", "inventory", "financial", "custom"}
OutputFormats == {"pdf", "excel", "html", "csv"}
DeliveryMethods == {"email", "download", "cloud", "ftp"}
RegisterGenTags == {"custom"}

\* The script's sample payloads (amounts in cents).
SalesData ==
    [period |-> "Enero 2024",
     sales  |-> << [product |-> "Laptop HP", amount |-> 89999],
                   [product |-> "Mouse Logitech", amount |-> 2550],
                   [product |-> "Teclado Mecánico", amount |-> 12000],
                   [product |-> "Monitor LG 24\"", amount |-> 19999] >>]

InventoryData ==
    [items |-> << [name |-> "Laptop HP", category |-> "Computadoras", quantity |-> 15],
                  [name |-> "Mouse Logitech", category |-> "Accesorios", quantity |-> 50],
                  [name |-> "Teclado Mecánico", category |-> "Accesorios", quantity |-> 30],
                  [name |-> "Monitor LG", category |-> "Pantallas", quantity |-> 20] >>]

FinancialData == [income |-> 5000000, expenses |-> 3200000]

\* The (report_type, data) pairs of the requests: each type with its sample
\* payload; payloads that lack a field the generator reads; an empty sales
\* list; the empty dict; and a type no generator is registered for at first.
TypePayloads ==
    { <<"sales", SalesData>>,
      <<"sales", [period |-> "Febrero 2024", sales |-> <<>>]>>,
      <<"sales", [sales |-> << [product |-> "Laptop HP", amount |-> 89999] >>]>>,
      <<"sales", [period |-> "Enero 2024"]>>,
      <<"sales", FinancialData>>,
      <<"sales", <<>> >>,
      <<"inventory", InventoryData>>,
      <<"inventory", SalesData>>,
      <<"financial", FinancialData>>,
      <<"financial", [income |-> 5000000]>>,
      <<"financial", [expenses |-> 3200000]>>,
      <<"custom", SalesData>> }

\* The sequences over S of length at most n.
RECURSIVE SeqsUpTo(_, _)
SeqsUpTo(S, n) ==
    IF n = 0 THEN {<<>>}
    ELSE SeqsUpTo(S, n - 1)
         \cup {Append(l, x) : l \in {q \in SeqsUpTo(S, n - 1) : Len(q) = n - 1},
                              x \in S}

\* Items of the payloads a generator is run on directly: amounts with and
\* without cents; categories that repeat, and that differ in letter case only;
\* a quantity of zero.
SaleItems ==
    { [product |-> "Laptop HP", amount |-> 89999],
      [product |-> "Mouse Logitech", amount |-> 2550],
      [product |-> "Cable USB", amount |-> 5] }

InventoryItems ==
    { [name |-> "Mouse Logitech", category |-> "Accesorios", quantity |-> 50],
      [name |-> "Teclado Mecánico", category |-> "Accesorios", quantity |-> 30],
      [name |-> "Cable USB", category |-> "accesorios", quantity |-> 7],
      [name |-> "Monitor LG", category |-> "Pantallas", quantity |-> 0] }

GeneratorPayloads ==
    {<<"sales", [period |-> "Enero 2024", sales |-> l]>> :
        l \in SeqsUpTo(SaleItems, MaxItems)}
    \cup {<<"inventory", [items |-> l]>> : l \in SeqsUpTo(InventoryItems, MaxItems)}

\* Before the first generate_report call.
NoCall ==
    [request |-> None, report |-> None, generated |-> None, delivered |-> None,
     steps |-> <<>>, base |-> 0]

\* ------------------------------------------------------------------ actions
\* ReportSystem.generate_report.
generate_report ==
    /\ script = "gestor_documentos"
    /\ Len(report_history) < MaxReports
    /\ \E tp \in TypePayloads, clock \in Clocks(now, 3),
          output_format \in OutputFormats, delivery_method \in DeliveryMethods :
         LET report_type == tp[1]
             data == tp[2]
             generator == create_generator(generators, report_type)
             formatter == DictGet(_format_strategies, output_format)
             delivery  == DictGet(_delivery_strategies, delivery_method)
             request   == [report_type |-> report_type, data |-> data,
                           output_format |-> output_format,
                           delivery_method |-> delivery_method]
             unsupported ==
               IF IsNone(generator)
               THEN Some("ValueError: Tipo de reporte no soportado: " \o report_type)
               ELSE IF IsNone(formatter)
               THEN Some("ValueError: Formato no soportado: " \o output_format)
               ELSE IF IsNone(delivery)
               THEN Some("ValueError: Método de entrega no soportado: "
                         \o delivery_method)
               ELSE None
         IN  IF ~IsNone(unsupported)
             THEN /\ raised' = unsupported
                  /\ call' = [request |-> Some(request), report |-> None,
                              generated |-> None, delivered |-> None,
                              steps |-> <<>>, base |-> Len(report_history)]
                  /\ UNCHANGED <<report_history, now>>
             ELSE \E r \in {ReportBuilder_build(
                               ReportBuilder_set(Val(generator), Val(formatter),
                                                 Val(delivery), data), clock)} :
                      /\ raised' = r.err
                      /\ now' = IF r.readings = 0 THEN now ELSE clock[r.readings]
                      /\ report_history' =
                           IF IsNone(r.err)
                           THEN _log_report(report_history, Val(r.report))
                           ELSE report_history
                      /\ call' = [request |-> Some(request), report |-> r.report,
                                  generated |-> r.generated,
                                  delivered |-> r.delivered,
                                  steps |-> IF IsNone(r.err)
                                            THEN Append(r.steps, "log")
                                            ELSE r.steps,
                                  base |-> Len(report_history)]
    /\ queried' = None
    /\ UNCHANGED <<script, nattempts, generators, registered_generators>>
    /\ UNCHANGED tiendaVars
    /\ UNCHANGED originalVars

\* factory.register_generator(tag, generator).  (A call that registers again
\* what the tag already maps to changes nothing.)
RegisterGenerator ==
    /\ script = "gestor_documentos"
    /\ \E tag \in RegisterGenTags, g \in NewGenerators :
         /\ DictGet(generators, tag) # Some(g)
         /\ generators' = register_generator(generators, tag, g)
         /\ registered_generators' =
              [t \in (DOMAIN registered_generators) \cup {tag} |->
                 IF t = tag THEN g ELSE registered_generators[t]]
    /\ queried' = None
    /\ UNCHANGED <<script, now, raised, nattempts, report_history, call>>
    /\ UNCHANGED tiendaVars
    /\ UNCHANGED originalVars

\* generator.generate_report(data) called directly on a payload, as a unit
\* test of a generator does: call.request holds the payload, call.generated
\* receives the Report.
GeneratorRun ==
    /\ script = "gestor_documentos"
    /\ ~IsNone(call.request)
    /\ call.steps = <<>>
    /\ IsNone(raised)
    /\ \E clock \in Clocks(now, 2) :
       \E r \in {generate(generators[Val(call.request).report_type],
                          Val(call.request).data, clock)} :
         /\ call' = [call EXCEPT !.generated = r.report, !.steps = <<"generate">>]
         /\ raised' = r.err
         /\ now' = IF IsNone(r.err) THEN clock[2] ELSE clock[1]
    /\ UNCHANGED <<script, nattempts, queried, generators,
                   registered_generators, report_history>>
    /\ UNCHANGED tiendaVars
    /\ UNCHANGED originalVars

\* ReportSystem.get_report_history: the list itself.
get_report_history ==
    /\ script = "gestor_documentos"
    /\ IsNone(queried)
    /\ queried' = Some(report_history)
    /\ UNCHANGED <<script, now, raised, nattempts>>
    /\ UNCHANGED tiendaVars
    /\ UNCHANGED originalVars
    /\ UNCHANGED gestorVars

vars == <<script, now, raised, nattempts, queried, tiendaVars, gestorVars,
          originalVars>>

\* The state after OrderNotificationSystem() or ReportSystem() was constructed.
Init ==
    /\ script \in {"tienda_online", "gestor_documentos"}
    /\ now = 0
    /\ raised = None
    /\ nattempts = 0
    /\ notifiers = NotificationFactory_init
    /\ registered = NotificationFactory_init
    /\ message_builder = [order |-> None, customer |-> None, channel |-> None]
    /\ storage = <<>>
    /\ order = NoOrder
    /\ channels = <<>>
    /\ attempts = <<>>
    /\ base = 0
    /\ sent = NoSend
    /\ workers = NoWorkers
    /\ queried = None
    /\ generators = ReportFactory_init
    /\ registered_generators = ReportFactory_init
    /\ report_history = <<>>
    /\ call = NoCall
    /\ notifications_sent = <<>>

Next ==
    \/ process_order
    \/ RegisterNotifier
    \/ generate_report
    \/ RegisterGenerator

Spec == Init /\ [][Next]_vars

\* The three notifiers called directly, on every recipient of Recipients.
InitNotifier ==
    /\ script = "tienda_online"
    /\ now = 0
    /\ raised = None
    /\ nattempts = 0
    /\ notifiers = NotificationFactory_init
    /\ registered = NotificationFactory_init
    /\ message_builder = [order |-> None, customer |-> None, channel |-> None]
    /\ storage = <<>>
    /\ order = NoOrder
    /\ channels = <<>>
    /\ attempts = <<>>
    /\ base = 0
    /\ \E tag \in DOMAIN NotificationFactory_init, recipient \in Recipients :
         sent = [notifier |-> NotificationFactory_init[tag],
                 notification |-> Notification(tag, recipient, "Pedido confirmado",
                                               "ORD-001", <<0, 0>>),
                 ok |-> None, after |-> None]
    /\ workers = NoWorkers
    /\ queried = None
    /\ generators = ReportFactory_init
    /\ registered_generators = ReportFactory_init
    /\ report_history = <<>>
    /\ call = NoCall
    /\ notifications_sent = <<>>

SpecNotifier == InitNotifier /\ [][NotifierSend]_vars

\* The orders the two callers work on, and the manager with each caller about
\* to start the attempt of its order and channel.
WorkerOrders ==
    {Order(d.order_id, Customer(d.customer, <<>>), d.total) :
       d \in {x \in OrderData : _validate_order(x)}}

InitInterleaved ==
    /\ script = "tienda_online"
    /\ now = 0
    /\ raised = None
    /\ nattempts = 0
    /\ queried = None
    /\ notifiers = NotificationFactory_init
    /\ registered = NotificationFactory_init
    /\ message_builder = [order |-> None, customer |-> None, channel |-> None]
    /\ storage = <<>>
    /\ order = NoOrder
    /\ channels = <<>>
    /\ attempts = <<>>
    /\ base = 0
    /\ sent = NoSend
    /\ workers \in [Workers ->
                      {[pc |-> "set_order", order |-> o, channel |-> ch,
                        message |-> None, clock |-> <<>>,
                        notification |-> None] :
                         o \in WorkerOrders, ch \in DOMAIN NotificationFactory_init}]
    /\ generators = ReportFactory_init
    /\ registered_generators = ReportFactory_init
    /\ report_history = <<>>
    /\ call = NoCall
    /\ notifications_sent = <<>>

NextInterleaved ==
    \/ Worker_set_order
    \/ Worker_set_customer
    \/ Worker_set_channel
    \/ Worker_build
    \/ Worker_read_id
    \/ Worker_read_timestamp
    \/ Worker_send
    \/ Worker_save

SpecInterleaved == InitInterleaved /\ [][NextInterleaved]_vars

\* The default generators, each about to be run on a payload of
\* GeneratorPayloads.
InitGenerator ==
    /\ script = "gestor_documentos"
    /\ now = 0
    /\ raised = None
    /\ nattempts = 0
    /\ queried = None
    /\ notifiers = NotificationFactory_init
    /\ registered = NotificationFactory_init
    /\ message_builder = [order |-> None, customer |-> None, channel |-> None]
    /\ storage = <<>>
    /\ order = NoOrder
    /\ channels = <<>>
    /\ attempts = <<>>
    /\ base = 0
    /\ sent = NoSend
    /\ workers = NoWorkers
    /\ generators = ReportFactory_init
    /\ registered_generators = ReportFactory_init
    /\ report_history = <<>>
    /\ notifications_sent = <<>>
    /\ \E tp \in GeneratorPayloads :
         call = [request |-> Some([report_type |-> tp[1], data |-> tp[2],
                                   output_format |-> "pdf",
                                   delivery_method |-> "email"]),
                 report |-> None, generated |-> None, delivered |-> None,
                 steps |-> <<>>, base |-> 0]

SpecGenerator == InitGenerator /\ [][GeneratorRun]_vars

\* The same systems with their history queried at any moment.
NextQuery == Next \/ get_notification_history \/ get_report_history

SpecQuery == Init /\ [][NextQuery]_vars

\* Both notification systems constructed, each about to receive the calls
\* the other receives.
InitOriginal == Init /\ script = "tienda_online"

SpecOriginal == InitOriginal /\ [][process_order_both]_vars

\* The same system with the clock advancing at any moment.
SpecClock == Init /\ [][Next \/ Tick]_vars

\* ==========================================================================
\* Properties
\* ==========================================================================
\* What the properties say of a recipient, a customer and a registry is
\* written here on its own, apart from the operators that model the code.

\* The contact of customer c for a channel: only the three built-in tags
\* have one.
ContactOf(c, ch) ==
    CASE ch = "email" -> c.email
      [] ch = "sms"   -> c.phone
      [] ch = "push"  -> c.device_id
      [] OTHER        -> None

HasDevicePrefix(str) == Len(str) >= 7 /\ SubSeq(str, 1, 7) = "DEVICE-"

\* Whether a notifier of class cls delivers to recipient.
ValidFor(cls, recipient) ==
    CASE cls = "EmailNotifier" -> TRUE
      [] cls = "SMSNotifier"   -> Len(recipient) > 10
      [] cls = "PushNotifier"  -> HasDevicePrefix(recipient)

\* A channel of a request is accepted when a notifier is registered for it
\* and the customer has a contact for it; it is deliverable when moreover
\* the contact is valid for the registered notifier.
Accepted(reg, c, ch) == ch \in DOMAIN reg /\ ~IsNone(ContactOf(c, ch))

Deliverable(reg, c, ch) ==
    Accepted(reg, c, ch) /\ ValidFor(reg[ch].cls, Val(ContactOf(c, ch)))

\* The step is a send_notifications call over a non-empty channel list:
\* channels' is the list, order' the order, notifiers the registry it used.
SentNotifications == script = "tienda_online" /\ nattempts' > nattempts

\* The notifications that step saved, in repository order.
NewlySaved == SubSeq(storage', Len(storage) + 1, Len(storage'))

\* The step is a generate_report call: call' holds its request.
GeneratedReport ==
    /\ script = "gestor_documentos"
    /\ generators' = generators
    /\ <<call, raised, report_history>>' # <<call, raised, report_history>>

BuiltInChannels == {"email", "sms", "push"}

\* --------------------------------------------------------------------- C1
\* C1: with the built-in notifiers, for an order whose email and device id are
\* valid and whose phone has at most 10 characters, send_notifications over
\* [email, sms, push] appends exactly three notifications to the repository,
\* two 'sent' and one 'failed', in the order of the channel list.
C1_FanOutThreeEntries ==
    [][ ( /\ SentNotifications
          /\ channels' = <<"email", "sms", "push">>
          /\ \A t \in BuiltInChannels :
               DictGet(notifiers, t) = Some(NotificationFactory_init[t])
          /\ ~IsNone(order'.customer.email)
          /\ ~IsNone(order'.customer.device_id)
          /\ HasDevicePrefix(Val(order'.customer.device_id))
          /\ ~IsNone(order'.customer.phone)
          /\ Len(Val(order'.customer.phone)) <= 10 )
        => ( /\ Len(storage') = Len(storage) + 3
             /\ SubSeq(storage', 1, Len(storage)) = storage
             /\ [i \in 1..3 |-> NewlySaved[i].type] = channels'
             /\ Cardinality({i \in 1..3 : NewlySaved[i].status = "sent"}) = 2
             /\ Cardinality({i \in 1..3 : NewlySaved[i].status = "failed"}) = 1 )
      ]_vars

C1_Witness ==
    /\ channels = <<"email", "sms", "push">>
    /\ order.order_id = "ORD-001"
    /\ Len(Val(order.customer.phone)) = 10
    /\ Len(storage) = base + 3
    /\ storage[base + 2].type = "sms"
    /\ storage[base + 2].status = "failed"
    /\ storage[base + 1].status = "sent"
    /\ storage[base + 3].status = "sent"

\* --------------------------------------------------------------------- C2
\* C2: every channel of the list is attempted, in list order, whatever became
\* of the channels before it: the attempts follow the list one for one, and
\* the notifications saved are, in order, those of the accepted channels, each
\* 'sent' exactly when its channel is deliverable.
C2_EveryChannelAttempted ==
    [][ SentNotifications =>
        LET c   == order'.customer
            acc == SelectSeq(channels', LAMBDA ch : Accepted(notifiers, c, ch))
        IN  /\ Len(attempts') = Len(channels')
            /\ \A i \in 1..Len(channels') :
                 /\ attempts'[i].channel = channels'[i]
                 /\ Deliverable(notifiers, c, channels'[i])
                      => /\ attempts'[i].outcome = "sent"
                         /\ attempts'[i].saved
            /\ Len(NewlySaved) = Len(acc)
            /\ \A k \in 1..Len(acc) :
                 /\ NewlySaved[k].type = acc[k]
                 /\ NewlySaved[k].order_id = order'.order_id
                 /\ NewlySaved[k].status = "sent" <=> Deliverable(notifiers, c, acc[k])
      ]_vars

C2_Witness ==
    /\ Len(attempts) = 3
    /\ attempts[1].outcome = "rejected"
    /\ attempts[2].outcome = "failed"
    /\ attempts[3].outcome = "sent"
    /\ Len(storage) = base + 2
    /\ storage[base + 2].status = "sent"

\* --------------------------------------------------------------------- C3
\* C3: a generate_report call that names a report type, output format or
\* delivery method nothing is registered for raises, runs no generator,
\* formatter or delivery and leaves report_history as it was; and a channel
\* no notifier is registered for adds no notification to the repository.
C3_UnknownTagRejected ==
    [][ /\ GeneratedReport =>
          LET req == Val(call'.request)
          IN  ( \/ req.report_type \notin DOMAIN generators
                \/ req.output_format \notin {"pdf", "excel", "html"}
                \/ req.delivery_method \notin {"email", "download", "cloud"} )
              => /\ ~IsNone(raised')
                 /\ report_history' = report_history
                 /\ call'.steps = <<>>
                 /\ IsNone(call'.generated)
                 /\ IsNone(call'.delivered)
                 /\ IsNone(call'.report)
        /\ SentNotifications =>
             /\ SubSeq(storage', 1, Len(storage)) = storage
             /\ \A i \in 1..Len(NewlySaved) : NewlySaved[i].type \in DOMAIN notifiers
      ]_vars

C3_Witness ==
    /\ script = "gestor_documentos"
    /\ ~IsNone(call.request)
    /\ Val(call.request).report_type = "sales"
    /\ Val(call.request).output_format = "csv"
    /\ ~IsNone(raised)
    /\ call.base = 1
    /\ Len(report_history) = 1

\* --------------------------------------------------------------------- C4
\* C4 as claimed: every terminal state, Rejected included, leaves exactly one
\* history entry: the repository grows by the length of the channel list and
\* report_history by one per generate_report call.
C4_OneEntryPerTerminalState ==
    /\ script = "tienda_online" => Len(storage) = base + Len(channels)
    /\ (script = "gestor_documentos" /\ ~IsNone(call.request))
         => Len(report_history) = call.base + 1

\* C4 as amended: a Delivered terminal state, success or failure, leaves
\* exactly one history entry and a Rejected one leaves none: the repository
\* grows by the number of listed channels that have a registered notifier and
\* a contact of the customer, and report_history grows by one when
\* generate_report returns and not at all when it raises.
C4_OneEntryPerDelivered ==
    [][ /\ SentNotifications =>
             Len(storage') = Len(storage)
               + Cardinality({i \in 1..Len(channels') :
                                Accepted(notifiers, order'.customer, channels'[i])})
        /\ GeneratedReport =>
             Len(report_history') = Len(report_history)
               + (IF IsNone(raised') THEN 1 ELSE 0)
      ]_vars

C4_Witness ==
    /\ Len(attempts) = 2
    /\ base = 1
    /\ attempts[1].outcome = "failed"
    /\ attempts[2].outcome = "rejected"
    /\ Len(storage) = 2

\* --------------------------------------------------------------------- C5
\* C5: generate_report('sales', payload, 'pdf', 'email') on a fresh system
\* returns the generated body wrapped in the PDF markers, the delivery
\* succeeds, and the one history entry appended has kind 'sales' and the
\* requested format 'pdf'.
C5_HistoryRecordsRequestedFormat ==
    ( /\ script = "gestor_documentos"
      /\ ~IsNone(call.request)
      /\ call.base = 0
      /\ Val(call.request).report_type = "sales"
      /\ Val(call.request).data = SalesData
      /\ Val(call.request).output_format = "pdf"
      /\ Val(call.request).delivery_method = "email"
      /\ generators = ReportFactory_init )
    => ( /\ IsNone(raised)
         /\ ~IsNone(call.report)
         /\ Val(call.report).content
              = "[PDF FORMAT]\n" \o Val(call.generated).content \o "\n[END PDF]"
         /\ Val(call.delivered).ok
         /\ Len(report_history) = 1
         /\ report_history[1].type = "sales"
         /\ report_history[1].format = "pdf" )

\* --------------------------------------------------------------------- C6
\* C6: the history get_all returns holds, for every failed delivery attempt,
\* a record that carries the failed outcome and the error reason.
C6_HistoryCarriesErrorReason ==
    \A i \in 1..Len(storage) :
        storage[i].status = "failed"
          => /\ get_all(storage)[i].status = "failed"
             /\ "error" \in DOMAIN get_all(storage)[i]

\* --------------------------------------------------------------------- C7
\* C7: SMSNotifier.send returns False and marks the notification 'failed'
\* exactly when the recipient has at most 10 characters, and returns True and
\* marks it 'sent' otherwise.
C7_SMSLengthBoundary ==
    (sent.notifier.cls = "SMSNotifier" /\ ~IsNone(sent.ok))
    => IF Len(sent.notification.recipient) <= 10
       THEN Val(sent.ok) = FALSE /\ Val(sent.after).status = "failed"
       ELSE Val(sent.ok) = TRUE /\ Val(sent.after).status = "sent"

C7_Witness ==
    /\ sent.notifier.cls = "SMSNotifier"
    /\ Len(sent.notification.recipient) = 10
    /\ sent.ok = Some(FALSE)
    /\ Val(sent.after).status = "failed"

\* --------------------------------------------------------------------- C8
\* C8: PushNotifier.send returns False and marks the notification 'failed'
\* when the recipient does not start with 'DEVICE-', and returns True and
\* marks it 'sent' when it does.
C8_PushDevicePrefix ==
    (sent.notifier.cls = "PushNotifier" /\ ~IsNone(sent.ok))
    => IF HasDevicePrefix(sent.notification.recipient)
       THEN Val(sent.ok) = TRUE /\ Val(sent.after).status = "sent"
       ELSE Val(sent.ok) = FALSE /\ Val(sent.after).status = "failed"

C8_Witness ==
    /\ sent.notifier.cls = "PushNotifier"
    /\ sent.notification.recipient = "DEVICE"
    /\ sent.ok = Some(FALSE)
    /\ Val(sent.after).status = "failed"

\* --------------------------------------------------------------------- C9
\* C9: in both registries, resolving a tag yields the instance most recently
\* registered for it (the defaults being the first registrations) and fails
\* for a tag never registered; so registering one tag changes no other.
C9_ResolveLastRegistered ==
    /\ \A tag \in Channels :
         create_notifier(notifiers, tag)
           = IF tag \in DOMAIN registered THEN Some(registered[tag]) ELSE None
    /\ \A tag \in ReportTypes :
         create_generator(generators, tag)
           = IF tag \in DOMAIN registered_generators
             THEN Some(registered_generators[tag]) ELSE None

C9_Witness ==
    /\ create_notifier(notifiers, "sms") = Some([cls |-> "EmailNotifier", id |-> 4])
    /\ create_notifier(notifiers, "email") = Some(DefaultEmail)
    /\ create_notifier(notifiers, "push") = Some(DefaultPush)
    /\ create_notifier(notifiers, "whatsapp") = None

\* -------------------------------------------------------------------- C10
\* C10: once a notifier n is registered for a tag t other than 'email', 'sms',
\* 'push', a send_notifications call whose list contains t runs n.send for
\* that channel and records one notification of type t.
C10_NewChannelDelivers ==
    [][ SentNotifications =>
        \A i \in 1..Len(channels') :
            (channels'[i] \in (DOMAIN notifiers) \ BuiltInChannels)
              => /\ attempts'[i].by = Some(notifiers[channels'[i]])
                 /\ \E k \in 1..Len(NewlySaved) : NewlySaved[k].type = channels'[i]
      ]_vars

\* -------------------------------------------------------------------- C11
\* C11: the history is append-only: no step of process_order, generate_report,
\* a registration or a history query shortens the repository or the report
\* history, and every entry already there keeps its position and all of its
\* fields, in the lists themselves and in what get_all returns of them.
C11_HistoryAppendOnly ==
    [][ /\ Len(storage') >= Len(storage)
        /\ SubSeq(storage', 1, Len(storage)) = storage
        /\ SubSeq(get_all(storage'), 1, Len(storage)) = get_all(storage)
        /\ Len(report_history') >= Len(report_history)
        /\ SubSeq(report_history', 1, Len(report_history)) = report_history
      ]_vars

C11_Witness ==
    /\ script = "tienda_online"
    /\ "whatsapp" \in DOMAIN notifiers
    /\ base = 1
    /\ Len(storage) = 3
    /\ queried = Some(get_all(storage))
    /\ Val(queried)[1].status = "sent"
    /\ Val(queried)[3].status = "failed"

\* -------------------------------------------------------------------- C12
\* C12: a delivery failure is not raised to the caller: send_notifications
\* over any channel list of a valid order returns normally; for a channel
\* whose contact the registered notifier rejects, send returns False and the
\* notification, marked 'failed' with its error, is saved; and the channels
\* after it are still sent when they are deliverable.
C12_FailureNotRaised ==
    [][ SentNotifications =>
        LET c == order'.customer
        IN  /\ IsNone(raised')
            /\ Len(attempts') = Len(channels')
            /\ \A i \in 1..Len(channels') :
                 ( /\ Accepted(notifiers, c, channels'[i])
                   /\ ~Deliverable(notifiers, c, channels'[i]) )
                 => /\ attempts'[i].outcome = "failed"
                    /\ attempts'[i].by = Some(notifiers[channels'[i]])
                    /\ attempts'[i].saved
                    /\ Val(attempts'[i].notification).status = "failed"
                    /\ ~IsNone(Val(attempts'[i].notification).error)
                    /\ \A j \in (i + 1)..Len(channels') :
                         Deliverable(notifiers, c, channels'[j])
                           => attempts'[j].outcome = "sent"
      ]_vars

C12_Witness ==
    /\ IsNone(raised)
    /\ base = 1
    /\ storage[1].status = "failed"
    /\ Len(attempts) = 2
    /\ attempts[1].outcome = "failed"
    /\ attempts[1].channel = "push"
    /\ attempts[2].outcome = "sent"
    /\ Len(storage) = 3

\* -------------------------------------------------------------------- C13
\* The fields each generator reads of its payload.
RequiredFields(cls) ==
    CASE cls = "SalesReportGenerator"     -> {"sales", "period"}
      [] cls = "InventoryReportGenerator" -> {"items"}
      [] cls = "FinancialReportGenerator" -> {"income", "expenses"}

\* C13: a payload that lacks a field its generator requires is fatal for the
\* request: generate_report raises, neither the formatter nor the delivery
\* runs, no report is returned and report_history stays as it was.
C13_InvalidPayloadFatal ==
    [][ GeneratedReport =>
        LET req == Val(call'.request)
        IN  ( /\ req.report_type \in DOMAIN generators
              /\ req.output_format \in DOMAIN _format_strategies
              /\ req.delivery_method \in DOMAIN _delivery_strategies
              /\ ~(RequiredFields(generators[req.report_type].cls)
                     \subseteq DOMAIN req.data) )
            => /\ ~IsNone(raised')
               /\ IsNone(call'.report)
               /\ IsNone(call'.delivered)
               /\ \A i \in 1..Len(call'.steps) :
                    call'.steps[i] \notin {"format", "deliver", "log"}
               /\ report_history' = report_history
      ]_vars

C13_Witness ==
    /\ script = "gestor_documentos"
    /\ ~IsNone(call.request)
    /\ Val(call.request).report_type = "financial"
    /\ Val(call.request).data = [income |-> 5000000]
    /\ Val(call.request).output_format = "html"
    /\ Val(call.request).delivery_method = "cloud"
    /\ raised = Some("KeyError: 'expenses'")
    /\ IsNone(call.report)
    /\ call.base = 1
    /\ Len(report_history) = 1

\* -------------------------------------------------------------------- C14
\* C14: the Report a generator returned is not changed afterwards: when build
\* has completed, the object holds the body, kind, format and metadata it held
\* when the generator returned it.
C14_ContentNotMutated ==
    (script = "gestor_documentos" /\ ~IsNone(call.report))
    => /\ Val(call.report).content = Val(call.generated).content
       /\ Val(call.report).type = Val(call.generated).type
       /\ Val(call.report).format = Val(call.generated).format
       /\ Val(call.report).metadata = Val(call.generated).metadata

\* -------------------------------------------------------------------- C15
\* C15: the message of every SMS notification the history records, delivered
\* ones included, has at most 160 characters.
C15_SMSMessageTruncated ==
    \A i \in 1..Len(storage) :
        (storage[i].type = "sms" /\ storage[i].status = "sent")
          => Len(get_all(storage)[i].message) <= 160

\* -------------------------------------------------------------------- C16
\* C16: whatever the interleaving of the callers' attempts, every recorded
\* notification carries the order id, the recipient and the message of the
\* order and channel of one caller.
C16_AttemptsShareNoState ==
    \A i \in 1..Len(storage) :
        \E w \in Workers :
            LET o  == workers[w].order
                ch == workers[w].channel
            IN  /\ workers[w].pc = "done"
                /\ storage[i].order_id = o.order_id
                /\ storage[i].type = ch
                /\ Some(storage[i].recipient) = get_contact_info(o.customer, ch)
                /\ Some(storage[i].message)
                     = MessageBuilder_build(MessageBuilder_set(o, ch))

\* -------------------------------------------------------------------- C17
\* The steps of a request, in the order of its states.
RequestSteps == <<"generate", "format", "deliver", "log">>

\* C17: a request goes through generate, format, deliver and log in that
\* order, each at most once: the steps a generate_report call ran are an
\* initial part of that list, complete exactly when it returns; the delivery
\* is handed the formatter's rendering of what the generator produced; an
\* entry is logged only after the delivery; and a notification is saved only
\* after its notifier's send has marked it, once per attempt.
C17_StepsInOrder ==
    [][ /\ GeneratedReport =>
             LET req == Val(call'.request)
             IN  /\ Len(call'.steps) <= Len(RequestSteps)
                 /\ call'.steps = SubSeq(RequestSteps, 1, Len(call'.steps))
                 /\ IsNone(raised') <=> call'.steps = RequestSteps
                 /\ ~IsNone(call'.delivered) =>
                      /\ ~IsNone(call'.generated)
                      /\ Val(call'.delivered).report
                           = format(_format_strategies[req.output_format],
                                    Val(call'.generated).content)
                 /\ report_history' # report_history =>
                      /\ ~IsNone(call'.delivered)
                      /\ Len(report_history') = Len(report_history) + 1
                      /\ report_history'[Len(report_history')].type
                           = Val(call'.generated).type
        /\ SentNotifications =>
             /\ Len(NewlySaved)
                  = Cardinality({i \in 1..Len(attempts') : attempts'[i].saved})
             /\ \A i \in 1..Len(attempts') :
                  attempts'[i].saved =>
                    /\ ~IsNone(attempts'[i].by)
                    /\ Val(attempts'[i].notification).status \in {"sent", "failed"}
             /\ \A k \in 1..Len(NewlySaved) : NewlySaved[k].status # "pending"
      ]_vars

C17_Witness ==
    /\ script = "gestor_documentos"
    /\ call.steps = RequestSteps
    /\ call.base = 1
    /\ Len(report_history) = 2
    /\ Val(call.request).output_format = "html"
    /\ Val(call.delivered).by = "DownloadDelivery"
    /\ Val(call.delivered).report
         = "<html><body><pre>" \o Val(call.generated).content \o "</pre></body></html>"

\* -------------------------------------------------------------------- C18
\* C18: the download delivery succeeds and names its file after the report
\* kind, the time and the requested output format: report_<kind>_<time>.<f>
\* for a request with output format f.
C18_DownloadFileExtension ==
    ( /\ script = "gestor_documentos"
      /\ ~IsNone(call.delivered)
      /\ Val(call.delivered).by = "DownloadDelivery" )
    => /\ Val(call.delivered).ok
       /\ Val(call.delivered).target
            = "report_" \o Val(call.request).report_type \o "_"
              \o Stamp(Val(call.generated).timestamp) \o "."
              \o Val(call.request).output_format

\* -------------------------------------------------------------------- C19
\* Whether text holds part somewhere, and whether it ends with it.
Contains(text, part) ==
    \E i \in 1..(Len(text) - Len(part) + 1) :
        SubSeq(text, i, i + Len(part) - 1) = part

EndsWith(text, part) ==
    /\ Len(text) >= Len(part)
    /\ SubSeq(text, Len(text) - Len(part) + 1, Len(text)) = part

\* How many times part occurs in text.
Occurrences(text, part) ==
    Cardinality({i \in 1..(Len(text) - Len(part) + 1) :
                   SubSeq(text, i, i + Len(part) - 1) = part})

\* The sum of the amounts of the first n sales.
RECURSIVE SumAmounts(_, _)
SumAmounts(sales, n) ==
    IF n = 0 THEN 0 ELSE SumAmounts(sales, n - 1) + sales[n].amount

\* The detail lines of the first n sales, one per item, in payload order.
RECURSIVE DetailLines(_, _)
DetailLines(sales, n) ==
    IF n = 0 THEN ""
    ELSE DetailLines(sales, n - 1)
         \o "  * Producto: " \o sales[n].product \o " - $"
         \o Fmt2fSigned(sales[n].amount) \o "\n"

\* C19: for every sales payload, the empty list included, the report of the
\* sales generator states the sum of the amounts as its total (0.00 for no
\* item) and the number of items as its transaction count, and ends with one
\* detail line per item, in payload order.
C19_SalesTotals ==
    ( /\ script = "gestor_documentos"
      /\ ~IsNone(call.request)
      /\ Val(call.request).report_type = "sales"
      /\ call.steps = <<"generate">> )
    => LET sales   == Val(call.request).data.sales
           total   == SumAmounts(sales, Len(sales))
       IN  /\ IsNone(raised)
           /\ ~IsNone(call.generated)
           /\ LET content == Val(call.generated).content
              IN  /\ Contains(content,
                              "\nTotal de ventas: $" \o Fmt2fSigned(total) \o "\n")
                  /\ Len(sales) = 0 => Contains(content, "\nTotal de ventas: $0.00\n")
                  /\ Contains(content,
                              "\nNúmero de transacciones: "
                              \o ToString(Len(sales)) \o "\n")
                  /\ EndsWith(content,
                              "\nDetalle de ventas:\n" \o Dash \o "\n"
                              \o DetailLines(sales, Len(sales)))
                  /\ Occurrences(content, "Producto: ") = Len(sales)

C19_Witness ==
    /\ script = "gestor_documentos"
    /\ call.steps = <<"generate">>
    /\ Val(call.request).report_type = "sales"
    /\ Val(call.request).data.sales
         = << [product |-> "Cable USB", amount |-> 5],
              [product |-> "Laptop HP", amount |-> 89999],
              [product |-> "Cable USB", amount |-> 5] >>
    /\ Contains(Val(call.generated).content, "\nTotal de ventas: $900.09\n")

\* -------------------------------------------------------------------- C20
\* The number of distinct categories: the items whose category no earlier
\* item has (strings compared as they are, letter case included).
DistinctCategories(items) ==
    Cardinality({i \in 1..Len(items) :
                   \A j \in 1..(i - 1) : items[j].category # items[i].category})

\* The sum of the quantities of the first n items.
RECURSIVE SumQuantities(_, _)
SumQuantities(items, n) ==
    IF n = 0 THEN 0 ELSE SumQuantities(items, n - 1) + items[n].quantity

\* C20: for every inventory payload, the report of the inventory generator
\* states the sum of the quantities as its total and the number of distinct
\* category strings, letter case told apart, as its category count.
C20_InventoryTotals ==
    ( /\ script = "gestor_documentos"
      /\ ~IsNone(call.request)
      /\ Val(call.request).report_type = "inventory"
      /\ call.steps = <<"generate">> )
    => LET items == Val(call.request).data.items
           total == SumQuantities(items, Len(items))
       IN  /\ IsNone(raised)
           /\ ~IsNone(call.generated)
           /\ Val(call.generated).metadata.total_items = total
           /\ Contains(Val(call.generated).content,
                       "\nTotal de productos: " \o ToString(total) \o "\n")
           /\ Contains(Val(call.generated).content,
                       "\nCategorías: " \o ToString(DistinctCategories(items))
                       \o "\n\n")

C20_Witness ==
    /\ script = "gestor_documentos"
    /\ call.steps = <<"generate">>
    /\ Val(call.request).report_type = "inventory"
    /\ Len(Val(call.request).data.items) = 3
    /\ Val(call.request).data.items[1].category = "Accesorios"
    /\ Val(call.request).data.items[2].category = "accesorios"
    /\ Val(call.request).data.items[3].category = "Accesorios"
    /\ Contains(Val(call.generated).content, "\nCategorías: 2\n")
    /\ Contains(Val(call.generated).content, "\nTotal de productos: 87\n")


\* -------------------------------------------------------------------- C21
\* The attempts of the last send_notifications call whose notification was
\* saved, in order.
SavedAttempts(atts) == SelectSeq(atts, LAMBDA a : a.saved)

\* C21: with notifiers of the three built-in classes, every notification in
\* the repository is 'sent' or 'failed', never 'pending': each notification a
\* send_notifications call saves is the one its notifier's send handled, as
\* send left it, 'sent' exactly when send returned True; and no step changes
\* a notification the repository already holds.
C21_StoredNeverPending ==
    [][ /\ \A i \in 1..Len(storage') : storage'[i].status \in {"sent", "failed"}
        /\ Len(storage') >= Len(storage)
        /\ SubSeq(storage', 1, Len(storage)) = storage
        /\ SentNotifications =>
             LET done == SavedAttempts(attempts')
             IN  /\ Len(NewlySaved) = Len(done)
                 /\ \A k \in 1..Len(done) :
                      /\ ~IsNone(done[k].by)
                      /\ done[k].notification = Some(NewlySaved[k])
                      /\ NewlySaved[k].status = "sent" <=> done[k].outcome = "sent"
                      /\ NewlySaved[k].status = "failed" <=> done[k].outcome = "failed"
      ]_vars

C21_Witness ==
    /\ script = "tienda_online"
    /\ base = 2
    /\ Len(storage) = 3
    /\ storage[1].status = "sent"
    /\ storage[1].type = "sms"
    /\ storage[2].status = "failed"
    /\ storage[2].type = "push"
    /\ Len(attempts) = 1
    /\ attempts[1].outcome = "failed"
    /\ Val(attempts[1].by).cls = "SMSNotifier"
    /\ storage[3].status = "failed"


\* -------------------------------------------------------------------- C22
\* C22: after any sequence of process_order calls made on both systems with
\* order data whose customer has its four fields as strings and with any
\* channel lists, the (type, recipient) pairs of the refactored history are,
\* in order, the (type, to) pairs of the monolith's notifications_sent.
C22_RefinesOriginalHistory ==
    [i \in 1..Len(get_all(storage)) |->
        <<get_all(storage)[i].type, Some(get_all(storage)[i].recipient)>>]
    = [i \in 1..Len(notifications_sent) |->
        <<notifications_sent[i].type, notifications_sent[i].to>>]

C22_Witness ==
    /\ IsNone(raised)
    /\ channels = <<"sms", "whatsapp", "sms">>
    /\ order.order_id = "ORD-001"
    /\ Len(storage) = 2
    /\ storage[1].status = "failed"
    /\ storage[2].recipient = "0123456789"
    /\ Len(notifications_sent) = 2
    /\ notifications_sent[2].type = "sms"
    /\ notifications_sent[2].to = Some("0123456789")
    /\ notifications_sent[2].message
         = "Pedido #ORD-001 confirmado. Total: $150.5. Gracias por su compra!"


\* -------------------------------------------------------------------- C23
\* C23: any two notifications of the history have different notification_id
\* values, those created for the channels of one order and those created
\* within one clock second included.
C23_DistinctNotificationIds ==
    \A i, j \in 1..Len(get_all(storage)) :
        i # j => get_all(storage)[i].notification_id
                   # get_all(storage)[j].notification_id

====
